---- MODULE Spec2Model ----
(***************************************************************************)
(* Model of src/main.py: the telemedicine chatbot API (CSV variant).       *)
(*                                                                         *)
(* Module-level startup (API key check, one-time load of doctores.csv into *)
(* df_doctores), the POST /chat handler handle_chat with its two awaited   *)
(* provider calls, and the GET / handler read_root.                        *)
(*                                                                         *)
(* Text is modelled as a sequence of one-character strings so that         *)
(* str.strip() and str.lower() are computed, not assumed.                  *)
(***************************************************************************)
EXTENDS Naturals, Sequences, FiniteSets

VARIABLES
    phase,          \* "boot" | "load" | "crashed" | "serving": position of the module-level code
    apiKey,         \* whether GOOGLE_API_KEY is set in the environment
    csvFile,        \* what doctores.csv is on disk when the module is imported
    df_doctores,    \* the process-wide DataFrame, as the sequence of its rows
    dfWrites,       \* number of assignments made to df_doctores
    req,            \* per request: the handle_chat coroutine's locals and position
    rootStatus      \* the set of statuses GET / has answered with

vars == <<phase, apiKey, csvFile, df_doctores, dfWrites, req, rootStatus>>

----------------------------------------------------------------------------
(* Bounds *)

NumRequests == 2
MaxDir == 3

Requests == 1..NumRequests

----------------------------------------------------------------------------
(* Text *)

WS == " "

\* str.lower() on the characters the model uses
LowerChar(c) ==
    CASE c = "N" -> "n"
      [] c = "A" -> "a"
      [] c = "C" -> "c"
      [] OTHER -> c

Lower(s) == [i \in DOMAIN s |-> LowerChar(s[i])]

RECURSIVE LStrip(_)
LStrip(s) == IF s # <<>> /\ Head(s) = WS THEN LStrip(Tail(s)) ELSE s

RECURSIVE RStrip(_)
RStrip(s) ==
    IF s # <<>> /\ s[Len(s)] = WS THEN RStrip(SubSeq(s, 1, Len(s) - 1)) ELSE s

\* str.strip()
Strip(s) == RStrip(LStrip(s))

\* the literal "N/A" of line 93
NA == <<"N", "/", "A">>

\* Texts the provider may put in a reply
Texts ==
    { NA,
      <<" ", "N", "/", "A", " ">>,
      <<" ">>,
      <<"c", " ">> }

\* what `await model.generate_content_async(...)` / `.text` can yield:
\* the call raises, the response has no text part (.text raises), or text
Replies ==
    { [kind |-> "error"], [kind |-> "blocked"] }
      \cup { [kind |-> "text", text |-> t] : t \in Texts }

Mensajes == {"m1", "m2"}

----------------------------------------------------------------------------
(* Startup *)

\* values of the especialidad column in the modelled CSV files
CsvEspecialidades == { <<" ", "C", " ">>, <<"d">> }

Row(i, e) == [nombre_completo |-> i, especialidad |-> e, bio_corta |-> "bio"]

RowsOfLen(n) ==
    { [i \in 1..n |-> Row(i, f[i])] : f \in [1..n -> CsvEspecialidades] }

CsvFiles ==
    { [kind |-> "missing"], [kind |-> "unparseable"] }
      \cup { [kind |-> "ok", rows |-> rows] :
                rows \in UNION { RowsOfLen(n) : n \in 0..MaxDir } }

\* pd.DataFrame(columns=[...]): no rows
EmptyFrame == <<>>

CargarDoctores_Crash(file) ==
    IF file.kind = "ok"
    THEN [started |-> TRUE, df |-> file.rows]
    ELSE [started |-> FALSE, df |-> EmptyFrame]

\* the try/except around pd.read_csv
CargarDoctores(file) ==
    IF file.kind = "ok"
    THEN [started |-> TRUE, df |-> file.rows]
    ELSE [started |-> TRUE, df |-> EmptyFrame]

IdleReq ==
    [ pc |-> "idle", mensaje |-> "none", calls |-> 0, prompts |-> <<>>,
      reply1 |-> [kind |-> "none"], reply2 |-> [kind |-> "none"],
      especialidad |-> <<>>, match |-> [kind |-> "none"],
      contexto |-> [text |-> "unset", docs |-> <<>>], exc |-> "none",
      trace |-> <<>>, responses |-> <<>> ]

Init ==
    /\ phase = "boot"
    /\ apiKey \in BOOLEAN
    /\ csvFile \in CsvFiles
    /\ df_doctores = EmptyFrame
    /\ dfWrites = 0
    /\ req = [r \in Requests |-> IdleReq]
    /\ rootStatus = {}

\* lines 32-37: raise ValueError when the key is absent
ConfigureAI ==
    /\ phase = "boot"
    /\ phase' = IF apiKey THEN "load" ELSE "crashed"
    /\ UNCHANGED <<apiKey, csvFile, df_doctores, dfWrites, req, rootStatus>>

\* lines 41-51
LoadDirectory ==
    /\ phase = "load"
    /\ LET out == CargarDoctores(csvFile)
       IN /\ phase' = IF out.started THEN "serving" ELSE "crashed"
          /\ df_doctores' = out.df
    /\ dfWrites' = dfWrites + 1
    /\ UNCHANGED <<apiKey, csvFile, req, rootStatus>>

----------------------------------------------------------------------------
(* POST /chat: handle_chat *)

MaxResults == 3

NoMedicoMsg ==
    <<"Lo siento, mi funcion es solo ayudarte con consultas de salud. Tienes algun sintoma del que quieras hablarme?">>

NoDoctoresText == "No se encontraron doctores para esta especialidad."
DoctoresHeader == "Doctores disponibles encontrados:"

PromptEspecialidad(m) ==
    [template |-> "PROMPT_EXTRACTOR_ESPECIALIDAD", mensaje |-> m]

PromptFinal(ctx, m) ==
    [template |-> "prompt_final", contexto |-> ctx, mensaje |-> m]

ChatOutput(text) == [status |-> 200, respuesta_bot |-> text]

HTTPException500 ==
    [status |-> 500, detail |-> "Ocurrio un error al procesar tu solicitud."]

\* except Exception as e: ... raise HTTPException(status_code=500, ...)
Catch_Uncaught(rq, e) == [rq EXCEPT !.pc = "done", !.exc = e]

Catch(rq, e) ==
    [rq EXCEPT !.pc = "done", !.exc = e,
               !.trace = Append(@, "respond"),
               !.responses = Append(@, HTTPException500)]

\* return ChatOutput(...)
Return(rq, text) ==
    [rq EXCEPT !.pc = "done",
               !.trace = Append(@, "respond"),
               !.responses = Append(@, ChatOutput(text))]

\* a provider call that raises is not retried: the exception goes to the
\* except block
OnProviderError_Retry(rq) ==
    IF rq.calls < 3
    THEN [rq EXCEPT !.calls = @ + 1, !.prompts = Append(@, rq.prompts[Len(rq.prompts)])]
    ELSE Catch(rq, "ProviderError")

OnProviderError(rq) == Catch(rq, "ProviderError")

Especialidad_NoStrip(text) == text

\* especialidad = response_especialidad.text.strip()
Especialidad(text) == Strip(text)

\* if especialidad == "N/A"
EsNoMedico(especialidad) == especialidad = NA

\* attribute `str` looked up on a Python str object: there is none
StrAccessor(s) == [raised |-> TRUE, exc |-> "AttributeError"]

\* especialidad.strip().str.lower()
EtiquetaNormalizada(especialidad) ==
    LET acc == StrAccessor(Strip(especialidad))
    IN IF acc.raised THEN acc
       ELSE [raised |-> FALSE, value |-> Lower(acc.value)]

\* df_doctores['especialidad'].str.strip().str.lower()
ColumnaNormalizada(df) == [i \in DOMAIN df |-> Lower(Strip(df[i].especialidad))]

\* DataFrame.head(n)
HeadN(rows, n) == SubSeq(rows, 1, IF Len(rows) < n THEN Len(rows) ELSE n)

RECURSIVE FilterRows(_, _, _)
\* boolean-mask selection df[mask], in row order
FilterRows(df, col, value) ==
    IF df = <<>> THEN <<>>
    ELSE IF Head(col) = value
         THEN <<Head(df)>> \o FilterRows(Tail(df), Tail(col), value)
         ELSE FilterRows(Tail(df), Tail(col), value)

\* lines 99-104: the lookup of the doctors of one specialty
Matcher(df, especialidad) ==
    IF df = <<>>
    THEN [kind |-> "ok", records |-> <<>>]
    ELSE LET col == ColumnaNormalizada(df)
             etiqueta == EtiquetaNormalizada(especialidad)
         IN IF etiqueta.raised
            THEN [kind |-> "raised", exc |-> etiqueta.exc]
            ELSE [kind |-> "ok",
                  records |-> HeadN(FilterRows(df, col, etiqueta.value), MaxResults)]

\* lines 106-110
ContextoDoctores(lista) ==
    IF lista = <<>>
    THEN [text |-> NoDoctoresText, docs |-> <<>>]
    ELSE [text |-> DoctoresHeader, docs |-> lista]

DirectoryAfterChat_Consuming(df) == IF df = <<>> THEN df ELSE Tail(df)

\* the handler does not assign df_doctores, nor change it in place
DirectoryAfterChat(df) == df

\* lines 88-89, up to the first await
Begin(rq, m) ==
    [rq EXCEPT !.pc = "await1", !.mensaje = m, !.calls = 1,
               !.prompts = <<PromptEspecialidad(m)>>,
               !.trace = <<"start", "extract_specialty">>]

\* lines 89-125: from the return of the first await to the second await,
\* the return of line 94 or the except block
AfterExtract(rq, reply, df) ==
    LET r1 == [rq EXCEPT !.reply1 = reply]
    IN IF reply.kind = "error" THEN OnProviderError(r1)
       ELSE IF reply.kind = "blocked" THEN Catch(r1, "ValueError")
       ELSE LET esp == Especialidad(reply.text)
                r2 == [r1 EXCEPT !.especialidad = esp]
            IN IF EsNoMedico(esp) THEN Return(r2, NoMedicoMsg)
               ELSE LET m == Matcher(df, esp)
                        r3 == [r2 EXCEPT !.match = m,
                                         !.trace = Append(@, "retrieve")]
                    IN IF m.kind = "raised" THEN Catch(r3, m.exc)
                       ELSE LET ctx == ContextoDoctores(m.records)
                            IN [r3 EXCEPT
                                  !.pc = "await2",
                                  !.contexto = ctx,
                                  !.calls = @ + 1,
                                  !.prompts = Append(@, PromptFinal(ctx, rq.mensaje)),
                                  !.trace = @ \o <<"build_prompt", "generate">>]

\* lines 125-127: from the return of the second await to the response
AfterGenerate(rq, reply) ==
    LET r1 == [rq EXCEPT !.reply2 = reply]
    IN IF reply.kind = "error" THEN OnProviderError(r1)
       ELSE IF reply.kind = "blocked" THEN Catch(r1, "ValueError")
       ELSE Return([r1 EXCEPT !.trace = Append(@, "parse")], Strip(reply.text))

StartChat(r, m) ==
    /\ phase = "serving"
    /\ req[r].pc = "idle"
    /\ req' = [req EXCEPT ![r] = Begin(@, m)]
    /\ UNCHANGED <<phase, apiKey, csvFile, df_doctores, dfWrites, rootStatus>>

ExtractReturn(r, reply) ==
    /\ phase = "serving"
    /\ req[r].pc = "await1"
    /\ req' = [req EXCEPT ![r] = AfterExtract(@, reply, df_doctores)]
    /\ df_doctores' = DirectoryAfterChat(df_doctores)
    /\ dfWrites' = IF df_doctores' = df_doctores THEN dfWrites ELSE dfWrites + 1
    /\ UNCHANGED <<phase, apiKey, csvFile, rootStatus>>

GenerateReturn(r, reply) ==
    /\ phase = "serving"
    /\ req[r].pc = "await2"
    /\ req' = [req EXCEPT ![r] = AfterGenerate(@, reply)]
    /\ UNCHANGED <<phase, apiKey, csvFile, df_doctores, dfWrites, rootStatus>>

\* GET /
ReadRoot ==
    /\ phase = "serving"
    /\ rootStatus' = rootStatus \cup {200}
    /\ UNCHANGED <<phase, apiKey, csvFile, df_doctores, dfWrites, req>>

Next ==
    \/ ConfigureAI
    \/ LoadDirectory
    \/ \E r \in Requests, m \in Mensajes : StartChat(r, m)
    \/ \E r \in Requests, reply \in Replies : ExtractReturn(r, reply)
    \/ \E r \in Requests, reply \in Replies : GenerateReturn(r, reply)
    \/ ReadRoot

Spec == Init /\ [][Next]_vars

----------------------------------------------------------------------------
(* Properties *)

InTrace(r, step) == \E i \in DOMAIN req[r].trace : req[r].trace[i] = step

Norm(s) == Lower(Strip(s))

\* the rows of df whose specialty, trimmed and case-folded, equals the label
\* trimmed and case-folded, in row order
MatchingRows(df, label) ==
    SelectSeq(df, LAMBDA d : Norm(d.especialidad) = Norm(label))

FullTrace ==
    <<"start", "extract_specialty", "retrieve", "build_prompt", "generate",
      "parse", "respond">>

\* C1: a request whose extraction reply trims to "N/A" is answered 200 with
\* the fixed non-medical message after exactly one provider call, with no
\* directory lookup and no generation call.
C1_NoMedicoShortCircuit ==
    \A r \in Requests :
        (req[r].reply1.kind = "text" /\ Strip(req[r].reply1.text) = NA) =>
            /\ req[r].pc = "done"
            /\ req[r].responses = <<ChatOutput(NoMedicoMsg)>>
            /\ req[r].calls = 1
            /\ req[r].prompts = <<PromptEspecialidad(req[r].mensaje)>>
            /\ req[r].match.kind = "none"
            /\ ~InTrace(r, "retrieve")
            /\ ~InTrace(r, "generate")

C1_Witness ==
    \E r \in Requests :
        /\ req[r].reply1.kind = "text"
        /\ req[r].reply1.text # NA
        /\ Strip(req[r].reply1.text) = NA
        /\ req[r].pc = "done"

\* C2: a request whose extraction reply is a label other than "N/A" reaches
\* the generation call through retrieve and build_prompt, whatever the
\* directory holds, and a text reply to that call is answered 200 with the
\* trimmed text.
C2_FullPipeline ==
    \A r \in Requests :
        (req[r].reply1.kind = "text" /\ Strip(req[r].reply1.text) # NA) =>
            /\ req[r].pc = "await2" \/ req[r].reply2.kind # "none"
            /\ req[r].reply2.kind = "text" =>
                  /\ req[r].trace = FullTrace
                  /\ req[r].responses = <<ChatOutput(Strip(req[r].reply2.text))>>

\* C3: the lookup succeeds and selects by trimmed, case-folded equality:
\* every returned row matches, every matching row is returned when at most
\* MaxResults match, and two labels with the same normal form give the same
\* result.
C3_MatcherNormalizes ==
    /\ \A r \in Requests :
          InTrace(r, "retrieve") =>
             /\ req[r].match.kind = "ok"
             /\ \A i \in DOMAIN req[r].match.records :
                   Norm(req[r].match.records[i].especialidad) = Norm(req[r].especialidad)
             /\ Len(MatchingRows(df_doctores, req[r].especialidad)) <= MaxResults =>
                   req[r].match.records = MatchingRows(df_doctores, req[r].especialidad)
    /\ \A r1, r2 \in Requests :
          ( /\ InTrace(r1, "retrieve") /\ InTrace(r2, "retrieve")
            /\ Norm(req[r1].especialidad) = Norm(req[r2].especialidad) ) =>
             /\ req[r1].match.kind = "ok"
             /\ req[r1].match = req[r2].match

\* C4: the lookup returns the first min(3, k) of the k matching rows, in
\* directory order.
C4_FirstThreeInOrder ==
    \A r \in Requests :
        InTrace(r, "retrieve") =>
            LET all == MatchingRows(df_doctores, req[r].especialidad)
                k == IF Len(all) < 3 THEN Len(all) ELSE 3
            IN /\ req[r].match.kind = "ok"
               /\ Len(req[r].match.records) <= 3
               /\ req[r].match.records = SubSeq(all, 1, k)

\* C5: with no rows in the directory, or no row matching the label, the
\* lookup returns the empty sequence and the second prompt carries the
\* "no doctors found" text.
C5_NoDoctorsSentinel ==
    \A r \in Requests :
        ( /\ InTrace(r, "retrieve")
          /\ MatchingRows(df_doctores, req[r].especialidad) = <<>> ) =>
            /\ req[r].match = [kind |-> "ok", records |-> <<>>]
            /\ req[r].contexto.text = NoDoctoresText
            /\ Len(req[r].prompts) = 2
            /\ req[r].prompts[2].contexto.text = NoDoctoresText

\* C6: a request is idle, suspended at a provider call, or done; it is done
\* exactly when it has its one response, which is 200 with respuesta_bot or
\* 500 with detail; every exception raised in the handler ends in the 500.
C6_OneResponse ==
    \A r \in Requests :
        /\ req[r].pc \in {"idle", "await1", "await2", "done"}
        /\ req[r].pc = "done" <=> Len(req[r].responses) = 1
        /\ Len(req[r].responses) <= 1
        /\ req[r].reply1.kind # "none" => req[r].pc \in {"await2", "done"}
        /\ req[r].reply2.kind # "none" => req[r].pc = "done"
        /\ \A i \in DOMAIN req[r].responses :
              LET resp == req[r].responses[i]
              IN \/ resp.status = 200 /\ DOMAIN resp = {"status", "respuesta_bot"}
                 \/ resp.status = 500 /\ DOMAIN resp = {"status", "detail"}
        /\ req[r].exc # "none" => req[r].responses = <<HTTPException500>>

C6_Witness ==
    \E r \in Requests :
        /\ req[r].exc = "AttributeError"
        /\ req[r].responses = <<HTTPException500>>

\* C7: when doctores.csv is missing or unparseable, startup ends serving
\* with an empty directory, GET / answers 200, and a chat request that
\* reaches the lookup gets the empty result and goes on to the generation
\* call.
C7_MissingDirectory ==
    (apiKey /\ csvFile.kind # "ok" /\ phase \notin {"boot", "load"}) =>
        /\ phase = "serving"
        /\ df_doctores = <<>>
        /\ rootStatus \subseteq {200}
        /\ ENABLED ReadRoot
        /\ \A r \in Requests :
              InTrace(r, "retrieve") =>
                 /\ req[r].match = [kind |-> "ok", records |-> <<>>]
                 /\ req[r].contexto.text = NoDoctoresText
                 /\ req[r].pc = "await2" \/ req[r].reply2.kind # "none"

C7_Witness ==
    /\ csvFile.kind = "missing"
    /\ rootStatus = {200}
    /\ \E r \in Requests :
          /\ InTrace(r, "retrieve")
          /\ req[r].pc = "done"
          /\ req[r].responses[1].status = 200

\* C8: a reply without text, or whose text is empty after trimming, fails
\* the request with 500: it is never used as the label of a lookup and never
\* answered 200 with an empty respuesta_bot.
C8_EmptyTextIsFailure ==
    \A r \in Requests :
        /\ ( \/ req[r].reply1.kind = "blocked"
             \/ req[r].reply1.kind = "text" /\ Strip(req[r].reply1.text) = <<>> ) =>
              /\ ~InTrace(r, "retrieve")
              /\ req[r].responses = <<HTTPException500>>
        /\ ( \/ req[r].reply2.kind = "blocked"
             \/ req[r].reply2.kind = "text" /\ Strip(req[r].reply2.text) = <<>> ) =>
              req[r].responses = <<HTTPException500>>

\* C9: a request makes at most one extraction call and at most one generation
\* call; a provider error on either ends it with 500 and no further call.
C9_NoRetry ==
    \A r \in Requests :
        /\ req[r].calls <= 2
        /\ req[r].calls = Len(req[r].prompts)
        /\ \A i, j \in DOMAIN req[r].prompts :
              req[r].prompts[i].template = req[r].prompts[j].template => i = j
        /\ req[r].reply1.kind = "error" =>
              /\ req[r].pc = "done"
              /\ req[r].calls = 1
              /\ req[r].reply2.kind = "none"
              /\ req[r].responses = <<HTTPException500>>
        /\ req[r].reply2.kind = "error" =>
              /\ req[r].pc = "done"
              /\ req[r].calls = 2
              /\ req[r].responses = <<HTTPException500>>

C9_Witness ==
    \E r1, r2 \in Requests :
        /\ req[r1].reply1.kind = "error" /\ req[r1].pc = "done"
        /\ req[r2].reply2.kind = "error" /\ req[r2].pc = "done"

\* C10: once serving, df_doctores has been assigned exactly once and holds
\* what startup loaded, whatever requests are in flight or done; two done
\* requests with the same message and the same provider replies have the
\* same response, and every prompt sent for a request carries that request's
\* own message.
C10_SnapshotStable ==
    /\ dfWrites <= 1
    /\ \A r \in Requests : \A i \in DOMAIN req[r].prompts :
          req[r].prompts[i].mensaje = req[r].mensaje
    /\ phase = "serving" =>
          /\ dfWrites = 1
          /\ df_doctores = CargarDoctores(csvFile).df
    /\ \A r1, r2 \in Requests :
          ( /\ req[r1].pc = "done" /\ req[r2].pc = "done"
            /\ req[r1].mensaje = req[r2].mensaje
            /\ req[r1].reply1 = req[r2].reply1
            /\ req[r1].reply2 = req[r2].reply2 ) =>
             req[r1].responses = req[r2].responses

C10_Witness ==
    /\ phase = "serving"
    /\ \E r1, r2 \in Requests :
          /\ r1 # r2
          /\ req[r1].pc = "await2"
          /\ req[r2].pc = "await1"
          /\ req[r1].mensaje # req[r2].mensaje

====
